---- MODULE Spec2Model ----
(***************************************************************************)
(* Model of domain_checker.py: the resumable enrichment loop over a CSV    *)
(* of domains, its website probe (check_website), the Gemini call with     *)
(* its retry / key-rotation loop (call_gemini), the field-by-field merge   *)
(* into the DataFrame and the checkpoint writes of the DataFrame.          *)
(*                                                                         *)
(* Strings are modelled as sequences of tokens (words), so that strip(),   *)
(* the code-fence split, the brace pattern and the substring tests         *)
(* on the error message are computed as the code computes them.            *)
(***************************************************************************)
EXTENDS Integers, Sequences, FiniteSets, TLC

(***************************************************************************)
(* Values and text                                                         *)
(***************************************************************************)
\* A JSON / cell value: a string (text), a number, null, or pandas' NaN.
StrV(txt) == [t |-> "str", s |-> txt, n |-> 0]
NumV(k) == [t |-> "num", s |-> <<>>, n |-> k]
NullV == [t |-> "null", s |-> <<>>, n |-> 0]
NaNV == [t |-> "nan", s |-> <<>>, n |-> 0]

\* A token of a text: a word, or (inside a JSON object) a "key": value pair.
Tok(word) == [w |-> word]
KV(k, v) == [w |-> "kv", key |-> k, val |-> v]
\* The one-word text.
T(word) == <<Tok(word)>>

IsSpace(tok) == tok.w \in {" ", "\n"}

\* `sub in text` for the marker words the code looks for.
Contains(text, word) == \E i \in 1..Len(text) : text[i].w = word

\* str.lower(), word by word, on the words of the model that have capitals.
LowerWord(word) ==
  CASE word = "Quota" -> "quota"
    [] word = "QUOTA" -> "quota"
    [] word = "SERVICE_DISABLED" -> "service_disabled"
    [] word = "Empty response" -> "empty response"
    [] OTHER -> word
Lower(text) ==
  [i \in 1..Len(text) |-> [text[i] EXCEPT !.w = LowerWord(text[i].w)]]

\* str.strip(): drops the leading and the trailing whitespace.
RECURSIVE LStrip(_)
LStrip(text) ==
  IF text # <<>> /\ IsSpace(Head(text)) THEN LStrip(Tail(text)) ELSE text
RECURSIVE RStrip(_)
RStrip(text) ==
  IF text # <<>> /\ IsSpace(text[Len(text)])
  THEN RStrip(SubSeq(text, 1, Len(text) - 1))
  ELSE text
Strip(text) == RStrip(LStrip(text))

(***************************************************************************)
(* The dataset                                                             *)
(***************************************************************************)
\* The eight derived columns, in the order the merge assigns them.
MergeColumns ==
  << "category", "company_size", "email_provider", "confidence",
     "other_industry_category", "website", "website_status", "website_reason" >>

\* A row of the DataFrame after the column normalisation of lines 42-62:
\* text columns hold strings, confidence an integer, domain a string or NaN.
Row(dom, cat, size, mail, conf, other, web, wstatus, wreason) ==
  [ domain |-> dom, category |-> cat, company_size |-> size,
    email_provider |-> mail, confidence |-> conf,
    other_industry_category |-> other, website |-> web,
    website_status |-> wstatus, website_reason |-> wreason ]

\* A row never enriched: read_csv gives NaN for the empty cells, astype(str)
\* turns it into "nan", to_numeric/fillna gives confidence 0.
FreshRow(dom, cat) ==
  Row(dom, cat, T("nan"), T("nan"), 0, T("nan"), T("nan"), T("nan"), T("nan"))

\* Selected without the test of the domain (lines 167-169 left out).
SelectedNoDomainTest(row) ==
  Strip(row.category) \in {<<>>, T("Unknown"), T("nan"), T("NaN")}
\* The skip predicate of the loop (lines 162-169), negated: the row is taken.
Selected(row) ==
  /\ Strip(row.category) \in {<<>>, T("Unknown"), T("nan"), T("NaN")}
  /\ ~(row.domain.t = "nan" \/ (row.domain.t = "str" /\ row.domain.s = <<>>))

(***************************************************************************)
(* check_website                                                           *)
(***************************************************************************)
\* The slice [:4000] applied to the cleaned page text.
MaxSnippet == 4000

\* What one requests.get does: it returns a response, or raises one of the
\* requests exceptions the function catches, or raises something else
\* ("Error": an exception that is no requests.RequestException).  A response
\* carries the length of its cleaned text, and whether clean_html raises on
\* its body.
Response(code, isHtml, cleanLen, cleanRaises) ==
  [ kind |-> "response", code |-> code, html |-> isHtml, len |-> cleanLen,
    cleanRaises |-> cleanRaises, msg |-> <<>> ]
Failure(kind, msg) ==
  [ kind |-> kind, code |-> 0, html |-> FALSE, len |-> 0,
    cleanRaises |-> FALSE, msg |-> msg ]

\* The four candidate URLs of a domain, in the order they are tried.
urls_to_try(domain) ==
  << [scheme |-> "https", www |-> FALSE, host |-> domain],
     [scheme |-> "http", www |-> FALSE, host |-> domain],
     [scheme |-> "https", www |-> TRUE, host |-> domain],
     [scheme |-> "http", www |-> TRUE, host |-> domain] >>

Min(a, b) == IF a < b THEN a ELSE b

ProbeReturn(status, reason, len, tried) ==
  [ raised |-> FALSE, status |-> status, reason |-> reason, text |-> len,
    tried |-> tried ]
ProbeRaise(tried) ==
  [ raised |-> TRUE, status |-> <<>>, reason |-> <<>>, text |-> 0,
    tried |-> tried ]

\* The except clauses of the candidate loop: the label kept in `reason`.
ReasonOf(c) ==
  CASE c.kind = "Timeout" -> T("Timeout")
    [] c.kind = "SSLError" -> T("SSL Error")
    [] c.kind = "ConnectionError" -> T("Connection Error")
    [] OTHER -> c.msg

\* The candidate loop from candidate i on; web[i] is what the i-th GET does,
\* reason the label left by the candidates before it.
RECURSIVE TryUrls(_, _, _, _)
TryUrls(urls, web, i, reason) ==
  IF i > Len(urls)
  THEN ProbeReturn(T("unreachable"), reason, 0, i - 1)
  ELSE LET c == web[i] IN
       CASE c.kind = "response" ->
              IF c.code < 400 /\ c.html
              THEN IF c.cleanRaises
                   THEN ProbeRaise(i)
                   ELSE ProbeReturn(T("reachable"), T(ToString(c.code)),
                                    Min(c.len, MaxSnippet), i)
              ELSE ProbeReturn(T("unreachable"), T(ToString(c.code)), 0, i)
         [] c.kind \in {"Timeout", "SSLError", "ConnectionError",
                        "RequestException"} ->
              TryUrls(urls, web, i + 1, ReasonOf(c))
         [] OTHER -> ProbeRaise(i)

\* check_website keeping the label of the first candidate when all fail.
check_websiteFirstLabel(domain, web) ==
  LET r == TryUrls(urls_to_try(domain), web, 1, <<>>) IN
  IF r.raised \/ web[r.tried].kind = "response"
  THEN r
  ELSE [r EXCEPT !.reason = ReasonOf(web[1])]

check_website(domain, web) == TryUrls(urls_to_try(domain), web, 1, <<>>)

(***************************************************************************)
(* call_gemini: the pure parts of one attempt                              *)
(***************************************************************************)
\* The default of the retries parameter.
retries == 3
\* The sleeps of the quota and the empty-response branches.
QuotaWait == 60
EmptyWait == 20

\* The token that stands for the three backquotes of a Markdown code fence.
Fence == "fence"

\* Indexes of a word in a text.
Positions(text, word) == {i \in 1..Len(text) : text[i].w = word}
MinOf(S) == CHOOSE x \in S : \A y \in S : x <= y
MaxOf(S) == CHOOSE x \in S : \A y \in S : x >= y

\* str.split(sep).
RECURSIVE Split(_, _)
Split(text, sep) ==
  IF Positions(text, sep) = {}
  THEN <<text>>
  ELSE LET i == MinOf(Positions(text, sep)) IN
       <<SubSeq(text, 1, i - 1)>> \o Split(SubSeq(text, i + 1, Len(text)), sep)

\* text.replace(fence + "json", "").replace(fence, "").
RECURSIVE DropFences(_)
DropFences(text) ==
  IF text = <<>> THEN <<>>
  ELSE IF Head(text).w = Fence
       THEN IF Len(text) >= 2 /\ text[2].w = "json"
            THEN DropFences(Tail(Tail(text)))
            ELSE DropFences(Tail(text))
       ELSE <<Head(text)>> \o DropFences(Tail(text))

\* Lines 123-128: the Markdown code fence is taken off.
Unfence(text) ==
  IF text # <<>> /\ Head(text).w = Fence
  THEN LET parts == Split(text, Fence) IN
       IF Len(parts) >= 2 THEN Strip(parts[2]) ELSE Strip(DropFences(text))
  ELSE text

\* re.search with the greedy brace pattern and DOTALL: from the first "{" to
\* the last "}" after it; <<>> when there is no match.
SearchJson(text) ==
  LET opens == Positions(text, "{") IN
  IF opens = {} THEN <<>>
  ELSE LET i == MinOf(opens)
           closes == {j \in Positions(text, "}") : j > i} IN
       IF closes = {} THEN <<>> ELSE SubSeq(text, i, MaxOf(closes))

EmptyError == <<Tok("Empty response"), Tok("from Gemini.")>>
ExtractError(text) == <<Tok("Could not extract JSON from response:")>> \o text

\* The try block of one attempt (lines 116-134) on what generate_content does:
\* o.raised with the service's error message o.text, or the response text.
\* cause: "service", "empty", "malformed", or "ok" when a match is returned.
AttemptBody(o) ==
  IF o.raised
  THEN [returns |-> FALSE, res |-> <<>>, err |-> o.text, cause |-> "service"]
  ELSE LET text == Strip(o.text) IN
       IF text = <<>>
       THEN [returns |-> FALSE, res |-> <<>>, err |-> EmptyError,
             cause |-> "empty"]
       ELSE LET body == Unfence(text)
                m == SearchJson(body) IN
            IF m # <<>>
            THEN [returns |-> TRUE, res |-> m, err |-> <<>>, cause |-> "ok"]
            ELSE [returns |-> FALSE, res |-> <<>>, err |-> ExtractError(body),
                  cause |-> "malformed"]

\* The markers the except clause looks for in str(e).
HasQuotaMarker(err) == Contains(err, "429") \/ Contains(Lower(err), "quota")
HasPermMarker(err) == Contains(err, "403") \/ Contains(err, "SERVICE_DISABLED")
HasEmptyMarker(err) == Contains(err, "Empty response")

\* ErrBranch with the 403 test moved before the quota test.
ErrBranchPermFirst(err) ==
  IF HasPermMarker(err) THEN "perm"
  ELSE IF HasQuotaMarker(err) THEN "quota"
  ELSE IF HasEmptyMarker(err) THEN "empty"
  ELSE "other"
\* ErrBranch with the empty response handled as a disabled key.
ErrBranchEmptyRotates(err) ==
  IF HasQuotaMarker(err) THEN "quota"
  ELSE IF HasPermMarker(err) \/ HasEmptyMarker(err) THEN "perm"
  ELSE "other"
\* The if / elif chain of the except clause (lines 138-153).
ErrBranch(err) ==
  IF HasQuotaMarker(err) THEN "quota"
  ELSE IF HasPermMarker(err) THEN "perm"
  ELSE IF HasEmptyMarker(err) THEN "empty"
  ELSE "other"

\* NextAttempt if a quota failure did not use up an attempt.
NextAttemptQuotaFree(branch, attempt) ==
  IF branch = "quota" THEN attempt ELSE attempt + 1
\* The loop variable after an attempt that ends in `continue`.
NextAttempt(branch, attempt) == attempt + 1

(***************************************************************************)
(* json.loads, dict.get and int, as the merge uses them                    *)
(***************************************************************************)
\* json.loads on the matched substring: an object of "key": value pairs
\* parses, anything else between the braces raises.
JsonLoads(res) ==
  LET inner == SubSeq(res, 2, Len(res) - 1) IN
  IF /\ Len(res) >= 2
     /\ res[1].w = "{"
     /\ res[Len(res)].w = "}"
     /\ \A i \in 1..Len(inner) : inner[i].w = "kv"
  THEN [ok |-> TRUE, obj |-> inner]
  ELSE [ok |-> FALSE, obj |-> <<>>]

\* js.get(key, default): the last pair of that key, else the default.
JsGet(js, key, default) ==
  LET at == {i \in 1..Len(js) : js[i].key = key} IN
  IF at = {} THEN default ELSE js[MaxOf(at)].val

\* int(value): a number converts, a non-numeric string raises ValueError,
\* null raises TypeError.
IntOf(v) ==
  IF v.t = "num" THEN [ok |-> TRUE, n |-> v.n] ELSE [ok |-> FALSE, n |-> 0]

\* The value the try branch assigns to a column (lines 279-286); raises when
\* int() raises.
TryValue(col, js, status, reason) ==
  CASE col = "category" ->
         [ok |-> TRUE, v |-> JsGet(js, "category", StrV(T("Unknown"))).s]
    [] col = "company_size" ->
         [ok |-> TRUE, v |-> JsGet(js, "company_size", StrV(T("Unknown"))).s]
    [] col = "email_provider" ->
         [ok |-> TRUE, v |-> JsGet(js, "email_provider", StrV(T("Unknown"))).s]
    [] col = "confidence" ->
         LET c == IntOf(JsGet(js, "confidence", NumV(0))) IN
         [ok |-> c.ok, v |-> c.n]
    [] col = "other_industry_category" ->
         [ok |-> TRUE, v |-> JsGet(js, "other_industry_category", StrV(T("N/A"))).s]
    [] col = "website" ->
         [ok |-> TRUE, v |-> JsGet(js, "website", StrV(T("Unknown"))).s]
    [] col = "website_status" -> [ok |-> TRUE, v |-> status]
    [] col = "website_reason" -> [ok |-> TRUE, v |-> reason]

\* ExceptValue if the except branch defaulted the two probe columns too.
ExceptValueNoProbe(col, status, reason) ==
  CASE col = "confidence" -> 0
    [] col = "other_industry_category" -> T("N/A")
    [] OTHER -> T("Unknown")
\* The value the except branch assigns to a column (lines 290-297).
ExceptValue(col, status, reason) ==
  CASE col = "confidence" -> 0
    [] col = "other_industry_category" -> T("N/A")
    [] col = "website_status" -> status
    [] col = "website_reason" -> reason
    [] OTHER -> T("Unknown")

(***************************************************************************)
(* The inputs the model runs on                                            *)
(***************************************************************************)
\* Rows of files/testing_domain.csv.
RowNew == FreshRow(StrV(T("a.com")), T("nan"))
RowFailedBefore ==
  Row(StrV(T("b.com")), <<Tok(" "), Tok("Unknown"), Tok(" ")>>, T("Unknown"),
      T("Unknown"), 0, T("N/A"), T("Unknown"), T("unreachable"), T("Timeout"))
RowNoDomain == FreshRow(NaNV, T("NaN"))
RowDone ==
  Row(StrV(T("c.com")), T("Retail"), T("5 to 20"), T("No"), 70, T("N/A"),
      T("little_info"), T("reachable"), T("200"))
InputRows == {RowNew, RowFailedBefore, RowNoDomain, RowDone}

\* The longest dataset.
MaxRows == 2
Datasets == UNION {[1..n -> InputRows] : n \in 1..MaxRows}

\* GEMINI_API_KEY_1 .. GEMINI_API_KEY_5, those that are set.
KeyNames == <<"key1", "key2", "key3", "key4", "key5">>
Pool(k) == SubSeq(KeyNames, 1, k)

\* What the four GETs of a probe do.
WebAll(c) == <<c, c, c, c>>
WebUp == WebAll(Response(200, TRUE, 5000, FALSE))
WebDown == WebAll(Failure("ConnectionError", <<>>))
WebBadMarkup == WebAll(Response(200, TRUE, 0, TRUE))
Webs == {WebUp, WebDown, WebBadMarkup}

\* JSON objects the service answers with.
Obj(cat, size, conf) ==
  << KV("category", StrV(T(cat))), KV("other_industry_category", StrV(T("N/A"))),
     KV("company_size", StrV(T(size))), KV("email_provider", StrV(T("No"))),
     KV("website", StrV(T("much_info"))), KV("confidence", conf) >>
Braces(inner) == T("{") \o inner \o T("}")
Raises(text) == [raised |-> TRUE, text |-> text]
Says(text) == [raised |-> FALSE, text |-> text]

\* What generate_content does on one invocation.
ServiceOutcomes ==
  { Says(T("fence") \o T("json") \o T("\n")
         \o Braces(Obj("Healthcare", "20 to 50", NumV(85))) \o T("\n")
         \o T("fence")),
    Says(T("Here:") \o Braces(<<>>) \o T("Done.")),
    Says(Braces(Obj("Other", "solo", NumV(150)))),
    Says(T(" ") \o Braces(Obj("Other", "solo", NumV(-5)))),
    Says(Braces(Obj("Other", "solo", StrV(T("high"))))),
    Says(Braces(T("oops"))),
    Says(<<>>),
    Says(T(" ") \o T("\n")),
    Says(T("Sorry,") \o T("no data")),
    Says(T("HTTP") \o T("429") \o T("slow down")),
    Raises(T("429") \o T("Resource exhausted")),
    Raises(T("Quota") \o T("exceeded")),
    Raises(T("403") \o T("SERVICE_DISABLED")),
    Raises(T("403") \o T("quota") \o T("project")),
    Raises(T("500") \o T("Internal error")) }

(***************************************************************************)
(* The program state                                                       *)
(***************************************************************************)
VARIABLES
  input_csv,     \* rows of file_path (files/testing_domain.csv), normalised
  saved_csv,     \* save_path (files/testing_enriched.csv): exists, rows
  df,            \* the DataFrame
  pc,            \* "loop", "classify", "returned", "merge", "save", "done",
                 \* "crashed"
  idx,           \* the row the for loop is at
  api_keys,      \* the keys found in the environment
  key_cycle,     \* itertools.cycle(api_keys): the position it yields next
  current_key,   \* the key genai is configured with
  site_status, site_reason, site_text,   \* the probe's result for row idx
  attempt,       \* call_gemini's loop variable
  gres,          \* what call_gemini returned or raised
  js,            \* the parsed object
  branch, step,  \* "try" / "except" and the assignment the merge is at
  processed,     \* the counter of line 300
  run,           \* which execution of the program this is
  interrupted,   \* KeyboardInterrupt was caught in this execution
  \* history, for stating the properties
  calls,         \* generate_content invocations of the current call_gemini
  rotations,     \* next(key_cycle) evaluations of the current call_gemini
  last,          \* what the latest attempt of the current call did
  probed,        \* rows passed to check_website in this execution, in order
  merged,        \* rows whose eight assignments all ran in this execution
  prev_saved,    \* save_path as the previous execution left it
  prev_exit,     \* how the previous execution ended: "none", "finished",
                 \* "interrupted", "crashed"
  prev_merged,   \* the rows the previous execution merged
  turns,         \* next(key_cycle) evaluations since the keys were loaded
  web,           \* what each candidate's GET does for the row being probed
  requested,     \* the URLs check_website requested for it, in order
  decoded        \* how json.loads took the latest result: "none", "object",
                 \* "invalid"

vars ==
  << input_csv, saved_csv, df, pc, idx, api_keys, key_cycle, current_key,
     site_status, site_reason, site_text, attempt, gres, js, branch, step,
     processed, run, interrupted, calls, rotations, last, probed, merged,
     prev_saved, prev_exit, prev_merged, turns, web, requested,
     decoded >>

\* What is kept of the execution before.
prev == << prev_saved, prev_exit, prev_merged >>

NoFile == [exists |-> FALSE, rows |-> <<>>]
File(rows) == [exists |-> TRUE, rows |-> rows]
NoResult == [kind |-> "none", text |-> <<>>]
NoAttempt ==
  [ cause |-> "none", branch |-> "none", quota |-> FALSE, perm |-> FALSE,
    empty |-> FALSE, rotated |-> FALSE, wait |-> 0, retried |-> FALSE,
    key |-> "", first |-> "" ]

\* An iterator over the keys that is used up after the last key.
CycleNextOnce(keys, pos) ==
  [key |-> IF pos <= Len(keys) THEN keys[pos] ELSE "", pos |-> pos + 1]

\* A cycle that passes over one key at each evaluation.
CycleNextSkip(keys, pos) ==
  [key |-> keys[pos], pos |-> ((pos + 1) % Len(keys)) + 1]

\* A cycle that stays on the last key instead of starting over.
CycleNextNoWrap(keys, pos) ==
  [key |-> keys[pos], pos |-> IF pos = Len(keys) THEN pos ELSE pos + 1]

\* next(key_cycle): the key yielded and the position after it.
CycleNext(keys, pos) == [key |-> keys[pos], pos |-> (pos % Len(keys)) + 1]

\* Lines 13-62: the keys are loaded, the first one configured, the CSV read.
Startup(rows, keys) ==
  /\ df = rows
  /\ api_keys = keys
  /\ current_key = CycleNext(keys, 1).key
  /\ key_cycle = CycleNext(keys, 1).pos
  /\ pc = "loop"
  /\ idx = 1
  /\ site_status = <<>> /\ site_reason = <<>> /\ site_text = 0
  /\ attempt = 0 /\ gres = NoResult /\ js = <<>>
  /\ branch = "none" /\ step = 0
  /\ processed = 0
  /\ interrupted = FALSE
  /\ calls = 0 /\ rotations = 0 /\ last = NoAttempt
  /\ probed = <<>> /\ merged = {}
  /\ turns = 0
  /\ web = <<>> /\ requested = <<>>
  /\ decoded = "none"

InitOn(datasets, poolSizes) ==
  /\ input_csv \in datasets
  /\ saved_csv = NoFile
  /\ prev_saved = NoFile
  /\ prev_exit = "none"
  /\ prev_merged = {}
  /\ run = 1
  /\ \E k \in poolSizes : Startup(input_csv, Pool(k))

\* Every dataset of up to MaxRows rows, with two of the five keys set.
Init == InitOn(Datasets, {2})

\* The locals of one loop iteration, forgotten when it ends.
ForgetRow ==
  /\ site_status' = <<>> /\ site_reason' = <<>> /\ site_text' = 0
  /\ web' = <<>> /\ requested' = <<>>
  /\ js' = <<>> /\ branch' = "none" /\ step' = 0
ForgetCall ==
  /\ attempt' = 0 /\ gres' = NoResult
  /\ calls' = 0 /\ rotations' = 0 /\ last' = NoAttempt

(***************************************************************************)
(* The main loop                                                           *)
(***************************************************************************)
\* The for loop over df.iterrows(): the row after row i.
NextRowSame(i) == i
NextRow(i) == i + 1

\* Lines 162-169: a row with a category, or without a domain, is passed over.
SkipRow ==
  /\ pc = "loop" /\ idx <= Len(df)
  /\ ~Selected(df[idx])
  /\ idx' = NextRow(idx)
  /\ UNCHANGED << input_csv, saved_csv, df, pc, api_keys, key_cycle,
                  current_key, site_status, site_reason, site_text, attempt,
                  gres, js, branch, step, processed, run, interrupted, calls,
                  rotations, last, probed, merged, prev, turns,
                  web, requested, decoded >>

\* Line 174: the row is probed; an exception check_website does not catch
\* leaves the loop and the program (nothing but KeyboardInterrupt is caught).
\* The sites the row's domain may turn out to be are those of `webs`.
ProbeWith(webs) ==
  /\ pc = "loop" /\ idx <= Len(df)
  /\ Selected(df[idx])
  /\ \E w \in webs :
       LET r == check_website(df[idx].domain.s, w) IN
       /\ probed' = Append(probed, idx)
       /\ web' = w
       /\ requested' = SubSeq(urls_to_try(df[idx].domain.s), 1, r.tried)
       /\ decoded' = "none"
       /\ IF r.raised
          THEN /\ pc' = "crashed"
               /\ UNCHANGED << site_status, site_reason, site_text >>
          ELSE /\ pc' = "classify"
               /\ site_status' = r.status
               /\ site_reason' = r.reason
               /\ site_text' = r.text
  /\ UNCHANGED << input_csv, saved_csv, df, idx, api_keys, key_cycle,
                  current_key, attempt, gres, js, branch, step, processed,
                  run, interrupted, calls, rotations, last, merged,
                  prev, turns >>

ProbeRow == ProbeWith(Webs)

\* One iteration of call_gemini's loop (lines 114-153).
GeminiAttempt ==
  /\ pc = "classify" /\ attempt < retries
  /\ \E o \in ServiceOutcomes :
       LET a == AttemptBody(o)
           b == IF a.returns THEN "none" ELSE ErrBranch(a.err)
           rot == CycleNext(api_keys, key_cycle)
           rotates == b \in {"quota", "perm"}
           waits == CASE b = "quota" -> QuotaWait
                      [] b = "empty" -> EmptyWait
                      [] OTHER -> 0
       IN
       /\ calls' = calls + 1
       /\ last' = [ cause |-> a.cause, branch |-> b,
                    quota |-> HasQuotaMarker(a.err),
                    perm |-> HasPermMarker(a.err),
                    empty |-> HasEmptyMarker(a.err),
                    rotated |-> rotates, wait |-> waits,
                    retried |-> b \in {"quota", "perm", "empty"},
                    key |-> current_key,
                    first |-> IF calls = 0 THEN current_key ELSE last.first ]
       /\ IF rotates
          THEN /\ current_key' = rot.key
               /\ key_cycle' = rot.pos
               /\ rotations' = rotations + 1
               /\ turns' = turns + 1
          ELSE UNCHANGED << current_key, key_cycle, rotations, turns >>
       /\ CASE a.returns ->
                 /\ gres' = [kind |-> "ok", text |-> a.res]
                 /\ pc' = "returned"
                 /\ UNCHANGED attempt
            [] ~a.returns /\ b = "other" ->
                 /\ gres' = [ kind |-> "error",
                             text |-> T("Gemini API error:") \o a.err ]
                 /\ pc' = "returned"
                 /\ UNCHANGED attempt
            [] OTHER ->
                 /\ attempt' = NextAttempt(b, attempt)
                 /\ UNCHANGED << gres, pc >>
  /\ UNCHANGED << input_csv, saved_csv, df, idx, api_keys, site_status,
                  site_reason, site_text, js, branch, step, processed, run,
                  interrupted, probed, merged, prev,
                  web, requested, decoded >>

\* Line 154: the loop ran out of attempts.
GeminiExhausted ==
  /\ pc = "classify" /\ attempt >= retries
  /\ gres' = [kind |-> "error", text |-> T("All retries failed")]
  /\ pc' = "returned"
  /\ UNCHANGED << input_csv, saved_csv, df, idx, api_keys, key_cycle,
                  current_key, site_status, site_reason, site_text, attempt,
                  js, branch, step, processed, run, interrupted, calls,
                  rotations, last, probed, merged, prev, turns,
                  web, requested, decoded >>

\* Lines 266-270: json.loads inside its own try; a result that is no JSON
\* gives the empty object and raises nothing.
DecodeRaising(res) ==
  [ raised |-> ~JsonLoads(res).ok, invalid |-> ~JsonLoads(res).ok,
    js |-> JsonLoads(res).obj ]
Decode(res) ==
  [ raised |-> FALSE, invalid |-> ~JsonLoads(res).ok,
    js |-> IF JsonLoads(res).ok THEN JsonLoads(res).obj ELSE <<>> ]

\* Lines 266-276 and 288-289: the result is decoded and the try branch
\* begins its assignments, or the exception call_gemini raised is caught
\* and the except branch begins.
AfterCall ==
  /\ pc = "returned"
  /\ pc' = "merge"
  /\ step' = 1
  /\ IF gres.kind = "ok"
     THEN LET d == Decode(gres.text) IN
          /\ branch' = IF d.raised THEN "except" ELSE "try"
          /\ js' = IF d.raised THEN <<>> ELSE d.js
          /\ decoded' = IF d.invalid THEN "invalid" ELSE "object"
     ELSE /\ branch' = "except"
          /\ js' = <<>>
          /\ decoded' = "none"
  /\ ForgetCall
  /\ UNCHANGED << input_csv, saved_csv, df, idx, api_keys, key_cycle,
                  current_key, site_status, site_reason, site_text,
                  processed, run, interrupted, probed, merged, prev, turns,
                  web, requested >>

\* Lines 288-290: the assignment the except branch begins with, when the
\* try branch raised at assignment s.
ExceptStartWhereRaised(s) == s
ExceptStart(s) == 1

\* One df.at assignment (lines 279-286, 290-297).  An exception in the try
\* branch restarts the assignments in the except branch.
MergeStep ==
  /\ pc = "merge"
  /\ LET col == MergeColumns[step]
         t == TryValue(col, js, site_status, site_reason)
         raises == branch = "try" /\ ~t.ok
         value == IF branch = "try"
                  THEN t.v
                  ELSE ExceptValue(col, site_status, site_reason)
     IN
     IF raises
     THEN /\ branch' = "except"
          /\ step' = ExceptStart(step)
          /\ UNCHANGED << df, pc, merged >>
     ELSE /\ df' = [df EXCEPT ![idx][col] = value]
          /\ IF step = Len(MergeColumns)
             THEN /\ pc' = "save"
                  /\ merged' = merged \cup {idx}
                  /\ UNCHANGED << branch, step >>
             ELSE /\ step' = step + 1
                  /\ UNCHANGED << pc, merged, branch >>
  /\ UNCHANGED << input_csv, saved_csv, idx, api_keys, key_cycle,
                  current_key, site_status, site_reason, site_text, attempt,
                  gres, js, processed, run, interrupted, calls, rotations,
                  last, probed, prev, turns,
                  web, requested, decoded >>

\* Lines 299-302: the DataFrame is written to save_path, then the loop
\* goes to the next row.
Checkpoint ==
  /\ pc = "save"
  /\ saved_csv' = File(df)
  /\ processed' = processed + 1
  /\ idx' = NextRow(idx)
  /\ pc' = "loop"
  /\ ForgetRow
  /\ UNCHANGED << input_csv, df, api_keys, key_cycle, current_key, attempt,
                  gres, run, interrupted, calls, rotations, last, probed,
                  merged, prev, turns, decoded >>

\* Lines 304-310: KeyboardInterrupt arrives inside the try statement; the
\* handler writes the DataFrame as it is, and so does the final write.
Interrupt ==
  /\ pc \in {"loop", "classify", "returned", "merge", "save"}
  /\ idx <= Len(df)
  /\ interrupted' = TRUE
  /\ saved_csv' = File(df)
  /\ decoded' = "none"
  /\ pc' = "done"
  /\ ForgetRow
  /\ ForgetCall
  /\ UNCHANGED << input_csv, df, idx, api_keys, key_cycle, current_key,
                  processed, run, probed, merged, prev, turns >>

\* Lines 308-313: the loop is over, the DataFrame is written.
Finish ==
  /\ pc = "loop" /\ idx > Len(df)
  /\ saved_csv' = File(df)
  /\ pc' = "done"
  /\ UNCHANGED << input_csv, df, idx, api_keys, key_cycle, current_key,
                  site_status, site_reason, site_text, attempt, gres, js,
                  branch, step, processed, run, interrupted, calls,
                  rotations, last, probed, merged, prev, turns,
                  web, requested, decoded >>

Next ==
  \/ SkipRow
  \/ ProbeRow
  \/ GeminiAttempt
  \/ GeminiExhausted
  \/ AfterCall
  \/ MergeStep
  \/ Checkpoint
  \/ Interrupt
  \/ Finish

Spec == Init /\ [][Next]_vars

(***************************************************************************)
(* Running the program again                                               *)
(***************************************************************************)
\* The executions of the program in one behaviour.
MaxRuns == 2

\* The program is started again after it ended: lines 13-62 run again, so
\* the keys are loaded anew and the DataFrame is read from file_path;
\* save_path is as the execution before left it.
Restart ==
  /\ pc \in {"done", "crashed"}
  /\ run < MaxRuns
  /\ run' = run + 1
  /\ prev_saved' = saved_csv
  /\ prev_merged' = merged
  /\ prev_exit' = IF pc = "crashed" THEN "crashed"
                  ELSE IF interrupted THEN "interrupted" ELSE "finished"
  /\ df' = input_csv
  /\ current_key' = CycleNext(api_keys, 1).key
  /\ key_cycle' = CycleNext(api_keys, 1).pos
  /\ pc' = "loop"
  /\ idx' = 1
  /\ processed' = 0
  /\ interrupted' = FALSE
  /\ probed' = <<>>
  /\ merged' = {}
  /\ turns' = 0
  /\ decoded' = "none"
  /\ ForgetRow
  /\ ForgetCall
  /\ UNCHANGED << input_csv, saved_csv, api_keys >>

NextResume == Next \/ Restart

\* Two datasets: a new row before an enriched one, and a row left "Unknown".
InitResume == InitOn({<<RowNew, RowDone>>, <<RowFailedBefore>>}, {2})

SpecResume == InitResume /\ [][NextResume]_vars

(***************************************************************************)
(* Every size of the key pool                                              *)
(***************************************************************************)
\* The rows of a dataset when the pool size varies.
MaxKeyRows == 2

\* Rows to classify and rows to pass over, in any order.
KeyDatasets == UNION {[1..n -> {RowNew, RowDone}] : n \in 1..MaxKeyRows}

\* Lines 15-24: any non-empty part of the five variables may be set.
PoolSizes == 1..Len(KeyNames)

InitKeys == InitOn(KeyDatasets, PoolSizes)

SpecKeys == InitKeys /\ [][Next]_vars

(***************************************************************************)
(* Properties                                                              *)
(***************************************************************************)
WasProbed(i) == \E k \in 1..Len(probed) : probed[k] = i

\* The categories that mark a row as not yet enriched.
OpenCategories == {<<>>, T("Unknown"), T("nan"), T("NaN")}

\* The row's category, stripped, is an open one and its domain is present.
Eligible(row) ==
  /\ Strip(row.category) \in OpenCategories
  /\ row.domain.t = "str"
  /\ row.domain.s # <<>>

\* C1: a row is probed only if its stripped category is "", "Unknown", "nan"
\* or "NaN" and its domain is present; every such row the loop has passed
\* was probed, and when the loop runs to its end exactly these rows were
\* merged; any other row is unchanged in the DataFrame and in the file.
C1_SkipPredicate ==
  \A i \in 1..Len(input_csv) :
    /\ WasProbed(i) => Eligible(input_csv[i])
    /\ (i < idx /\ Eligible(input_csv[i])) => WasProbed(i)
    /\ (pc = "done" /\ ~interrupted) => (i \in merged <=> Eligible(input_csv[i]))
    /\ ~Eligible(input_csv[i]) =>
         /\ df[i] = input_csv[i]
         /\ saved_csv.exists => saved_csv.rows[i] = input_csv[i]

\* A complete run that merged one row and passed over a row whose category
\* is open but whose domain is missing.
C1_Witness ==
  /\ pc = "done" /\ ~interrupted
  /\ \E i, j \in 1..Len(input_csv) :
       /\ i \in merged
       /\ ~WasProbed(j)
       /\ Strip(input_csv[j].category) \in OpenCategories
       /\ saved_csv.rows[j] = input_csv[j]

\* A row the previous execution left enriched in save_path.
EnrichedBefore(i) ==
  /\ prev_saved.exists
  /\ i \in prev_merged
  /\ Strip(prev_saved.rows[i].category) \notin OpenCategories

\* C2: after an interrupted execution, the next execution does not probe the
\* rows the interrupted one enriched, and save_path keeps their values.
C2_ResumeKeepsCompletedWork ==
  (run > 1 /\ prev_exit = "interrupted") =>
    \A i \in 1..Len(input_csv) :
      EnrichedBefore(i) =>
        /\ ~WasProbed(i)
        /\ saved_csv.rows[i] = prev_saved.rows[i]

\* C3: the checkpoint of a row is written before the next row is looked at,
\* and after an interrupt save_path holds the merged rows with their merged
\* values and every other row with its input values.
C3_CheckpointAfterEveryRow ==
  /\ (pc = "loop" /\ merged # {}) => saved_csv = File(df)
  /\ pc = "done" =>
       \A i \in 1..Len(input_csv) :
         saved_csv.rows[i] = IF i \in merged THEN df[i] ELSE input_csv[i]

\* C4: whenever save_path has been written, each of its rows is as in the
\* input or had all eight assignments of a merge.
C4_NoPartialRowFlushed ==
  saved_csv.exists =>
    \A i \in 1..Len(input_csv) :
      saved_csv.rows[i] = input_csv[i] \/ i \in merged

\* C5: no error raised while a row is probed or classified ends the run.
C5_RowFailuresNeverAbort == pc # "crashed"

\* C6: when the merge of a row is complete, its website_status and
\* website_reason are the probe's, in the try and in the except branch.
C6_ProbeResultRecorded ==
  pc = "save" =>
    /\ df[idx].website_status = site_status
    /\ df[idx].website_reason = site_reason
    /\ site_status \in {T("reachable"), T("unreachable")}

\* The except branch completed for a row that was unreachable and whose
\* row held other values before.
C6_Witness ==
  /\ pc = "save" /\ branch = "except"
  /\ site_status = T("unreachable")
  /\ df[idx].website_reason = T("Connection Error")
  /\ input_csv[idx].website_reason # T("Connection Error")

\* C7: the confidence of a merged row is an integer from 0 to 100.
C7_ConfidenceInRange ==
  \A i \in merged : df[i].confidence \in 0..100

\* C8: a call invokes the service at most `retries` times; it ends with a
\* brace-delimited substring, or with the error of a non-retryable failure,
\* or, the budget used up by retry-eligible failures of any kind, with
\* "All retries failed".
C8_BoundedRetries ==
  /\ calls <= retries
  /\ attempt <= calls
  /\ (pc = "classify" /\ calls > 0) => (last.retried /\ attempt = calls)
  /\ pc = "returned" =>
       \/ /\ gres.kind = "ok"
          /\ last.cause = "ok"
          /\ Head(gres.text).w = "{"
          /\ gres.text[Len(gres.text)].w = "}"
       \/ /\ gres.kind = "error"
          /\ Head(gres.text).w = "Gemini API error:"
          /\ ~last.retried
          /\ last.cause # "ok"
       \/ /\ gres.kind = "error"
          /\ gres.text = T("All retries failed")
          /\ calls = retries
          /\ attempt = retries
          /\ last.retried

\* A call that failed with a quota error, an empty response and a permission
\* error, and so ran out of attempts.
C8_Witness ==
  /\ pc = "returned"
  /\ gres.text = T("All retries failed")
  /\ calls = retries
  /\ rotations = 2
  /\ last.branch = "empty"

\* The key after `from` in the pool, the first after the last.
KeyAfter(from) ==
  LET at == CHOOSE i \in 1..Len(api_keys) : api_keys[i] = from IN
  api_keys[(at % Len(api_keys)) + 1]

FailedAttempt == last.cause \notin {"none", "ok"}
DidRotate == last.rotated /\ current_key = KeyAfter(last.key)
DidNotRotate == ~last.rotated /\ current_key = last.key

\* C9 as stated: each marker decides the action by itself.
C9_ActionBySignal ==
  FailedAttempt =>
    /\ last.quota => (DidRotate /\ last.wait = QuotaWait /\ last.retried)
    /\ last.perm => (DidRotate /\ last.wait = 0 /\ last.retried)
    /\ last.cause = "empty" =>
         (DidNotRotate /\ last.wait = EmptyWait /\ last.retried)
    /\ (~last.quota /\ ~last.perm /\ last.cause # "empty") =>
         (DidNotRotate /\ last.wait = 0 /\ ~last.retried)

\* C9 amended: the markers are looked for in the order quota, permission,
\* empty response, and the first one found decides the action.
C9_ActionByFirstSignal ==
  FailedAttempt =>
    /\ last.quota => (DidRotate /\ last.wait = QuotaWait /\ last.retried)
    /\ (last.perm /\ ~last.quota) =>
         (DidRotate /\ last.wait = 0 /\ last.retried)
    /\ (last.empty /\ ~last.quota /\ ~last.perm) =>
         (DidNotRotate /\ last.wait = EmptyWait /\ last.retried)
    /\ (~last.quota /\ ~last.perm /\ ~last.empty) =>
         /\ DidNotRotate /\ last.wait = 0 /\ ~last.retried
         /\ pc = "returned" /\ gres.kind = "error"
    /\ last.retried => pc = "classify" \/ gres.text = T("All retries failed")

\* An error message with a 403 and a quota marker: the quota branch is taken.
C9_Witness ==
  /\ FailedAttempt
  /\ last.cause = "service"
  /\ last.quota /\ last.perm
  /\ last.wait = QuotaWait
  /\ DidRotate

\* C10: an attempt whose response is not empty and holds no JSON object ends
\* the call: no retry, no rotation, no wait.
C10_MalformedNeverRetried ==
  last.cause = "malformed" =>
    /\ ~last.retried
    /\ DidNotRotate
    /\ last.wait = 0
    /\ pc = "returned" /\ gres.kind = "error"

(***************************************************************************)
(* check_website on every site                                             *)
(***************************************************************************)
\* What one GET may do: responses below and from 400 on, HTML or not, with
\* a cleaned text shorter and longer than the snippet, one whose markup
\* clean_html raises on, each exception the function catches, and one it
\* does not catch.
GetOutcomes ==
  { Response(200, TRUE, 120, FALSE),
    Response(200, TRUE, MaxSnippet + 1, FALSE),
    Response(399, TRUE, MaxSnippet, FALSE),
    Response(200, TRUE, 0, TRUE),
    Response(200, FALSE, 50, FALSE),
    Response(400, TRUE, 50, FALSE),
    Response(404, TRUE, 50, FALSE),
    Response(503, FALSE, 0, FALSE),
    Failure("Timeout", <<>>),
    Failure("SSLError", <<>>),
    Failure("ConnectionError", <<>>),
    Failure("RequestException", T("Invalid URL")),
    Failure("Error", T("label empty or too long")) }

\* Every site: one outcome for each candidate URL.
AllWebs == [1..Len(urls_to_try(<<>>)) -> GetOutcomes]

ProbeAny == ProbeWith(AllWebs)

InitProbe == InitOn({<<RowNew>>, <<RowFailedBefore>>}, {1})

SpecProbe == InitProbe /\ [][ProbeAny]_vars

\* The candidate list as the specification gives it.
Candidates(d) ==
  << [scheme |-> "https", www |-> FALSE, host |-> d],
     [scheme |-> "http", www |-> FALSE, host |-> d],
     [scheme |-> "https", www |-> TRUE, host |-> d],
     [scheme |-> "http", www |-> TRUE, host |-> d] >>

TransportFailure(c) ==
  c.kind \in {"Timeout", "SSLError", "ConnectionError", "RequestException"}

\* A probe has been made and its row is still the current one.
ProbeDone == requested # <<>>

\* C12: the candidates are requested in the order https://d, http://d,
\* https://www.d, http://www.d; a candidate is requested only if every one
\* before it raised a transport failure; the first candidate that answers
\* decides the result: ("reachable", code, cleaned text of at most 4000
\* characters) when the code is below 400 and the content is HTML, an
\* ("unreachable", code, "") otherwise, and no candidate is requested after.
C12_FirstResponseDecides ==
  ProbeDone =>
    LET n == Len(requested)
        c == web[n]
    IN
    /\ requested = SubSeq(Candidates(df[idx].domain.s), 1, n)
    /\ \A j \in 1..(n - 1) : TransportFailure(web[j])
    /\ c.kind = "response" =>
         /\ pc = "classify"
         /\ site_reason = T(ToString(c.code))
         /\ IF c.code < 400 /\ c.html
            THEN /\ site_status = T("reachable")
                 /\ site_text = Min(c.len, 4000)
            ELSE /\ site_status = T("unreachable")
                 /\ site_text = 0
    /\ TransportFailure(c) => n = Len(web)

AllFailed == \A j \in 1..Len(web) : TransportFailure(web[j])

\* C13: when all four candidates raise transport failures, check_website
\* returns ("unreachable", r, "") with r the label of the fourth candidate's
\* failure, whatever the labels of the first three.
C13_LastFailureReported ==
  (ProbeDone /\ AllFailed) =>
    /\ pc = "classify"
    /\ Len(requested) = 4
    /\ site_status = T("unreachable")
    /\ site_reason = ReasonOf(web[4])
    /\ site_text = 0

C13_Witness ==
  /\ ProbeDone /\ AllFailed
  /\ web[1].kind = "Timeout" /\ web[2].kind = "SSLError"
  /\ web[3].kind = "ConnectionError" /\ web[4].kind = "RequestException"
  /\ site_reason = T("Invalid URL")

\* The row of the latest probe.
LastProbed == probed[Len(probed)]

(***************************************************************************)
(* The merged row                                                          *)
(***************************************************************************)
\* C14: once a row has been processed, its company_size is not "Unknown":
\* after a classification without company_size, after a result that is no
\* JSON, after a failed classification.
C14_CompanySizeKnown ==
  \A i \in merged : df[i].company_size # T("Unknown")

\* A row holding the six defaults.
SixDefaults(row) ==
  /\ row.category = T("Unknown")
  /\ row.company_size = T("Unknown")
  /\ row.email_provider = T("Unknown")
  /\ row.confidence = 0
  /\ row.other_industry_category = T("N/A")
  /\ row.website = T("Unknown")

\* A row holding the six defaults and the given status and reason.
FailureDefaults(row, status, reason) ==
  /\ SixDefaults(row)
  /\ row.website_status = status
  /\ row.website_reason = reason

\* The try branch raised at the confidence, after three columns were
\* assigned.
ConfidenceRaised ==
  /\ js # <<>>
  /\ ~IntOf(JsGet(js, "confidence", NumV(0))).ok

\* C15: a row whose classification failed, or whose merge raised after some
\* columns were assigned, ends with all six failure defaults and the
\* probe's status and reason, never with classification values among them.
C15_MergeAllOrNothing ==
  (pc = "save" /\ (branch = "except" \/ ConfidenceRaised)) =>
    FailureDefaults(df[idx], site_status, site_reason)

C15_Witness ==
  /\ pc = "save" /\ branch = "except"
  /\ ConfidenceRaised
  /\ JsGet(js, "category", StrV(T("Unknown"))).s # T("Unknown")
  /\ FailureDefaults(df[idx], site_status, site_reason)

\* C16: a result of call_gemini that json.loads cannot decode does not fail
\* the row: the empty object is merged by the try branch, so the row gets
\* the six defaults with the probe's status and reason; the row is then
\* written to save_path and the loop goes on to the next row.
C16_UndecodableMergedAsDefaults ==
  decoded = "invalid" =>
    /\ pc \in {"merge", "save", "loop", "done"}
    /\ pc \in {"merge", "save"} => (branch = "try" /\ js = <<>>)
    /\ pc = "save" =>
         FailureDefaults(df[LastProbed], site_status, site_reason)
    /\ pc \in {"loop", "done"} =>
         /\ idx > LastProbed
         /\ LastProbed \in merged
         /\ saved_csv = File(df)
         /\ SixDefaults(saved_csv.rows[LastProbed])

C16_Witness ==
  /\ decoded = "invalid"
  /\ pc = "loop" /\ idx <= Len(df) /\ Selected(df[idx])
  /\ saved_csv.exists
  /\ saved_csv.rows[LastProbed].category = T("Unknown")
  /\ saved_csv.rows[LastProbed].website_status = T("reachable")
  /\ saved_csv.rows[LastProbed].website_reason = T("200")

(***************************************************************************)
(* The order of the rows                                                   *)
(***************************************************************************)
\* C17: the rows are visited in the order of the dataset, one at a time.  A
\* row is probed at most once in an execution; when a row is probed, every
\* row probed before it has been merged and written to save_path; the calls
\* and the merge are those of the row probed last; and a row the loop has
\* not reached is as it was read, so nothing written depends on it.
C17_RowsInOrderOneAtATime ==
  /\ \A k \in 1..(Len(probed) - 1) :
       /\ probed[k] < probed[k + 1]
       /\ probed[k] \in merged
       /\ processed >= k
       /\ saved_csv.exists
       /\ saved_csv.rows[probed[k]] = df[probed[k]]
  /\ pc \in {"classify", "returned", "merge", "save"} =>
       (probed # <<>> /\ LastProbed = idx)
  /\ merged \subseteq {probed[k] : k \in 1..Len(probed)}
  /\ \A i \in 1..Len(df) :
       i > idx => (df[i] = input_csv[i] /\ \A k \in 1..Len(probed) : probed[k] # i)

C17_Witness ==
  /\ Len(probed) = 2
  /\ pc = "merge" /\ step > 1
  /\ probed[1] \in merged
  /\ df[probed[1]] # input_csv[probed[1]]

(***************************************************************************)
(* The key pool                                                            *)
(***************************************************************************)
\* C11 as the specification words it: the first key is active at startup,
\* and it is active again when the (K+1)-th rotation since startup has been
\* made, K being the size of the pool.
C11_FirstAgainOnRotationKPlus1 ==
  turns = Len(api_keys) + 1 => current_key = api_keys[1]

\* C11: rotation is cyclic.  With K keys and the first one active at
\* startup, the rotations go through the pool in order: after n rotations
\* the active key is the one at place (n mod K) + 1, so the first key is
\* active again on the K-th rotation.
C11_CyclicRotation ==
  /\ current_key = api_keys[(turns % Len(api_keys)) + 1]
  /\ turns = Len(api_keys) => current_key = api_keys[1]

C11_Witness ==
  /\ Len(api_keys) = Len(KeyNames)
  /\ turns = Len(api_keys)
  /\ current_key = api_keys[1]
  /\ last.rotated /\ last.branch = "quota"

\* The places of the pool holding the active key.
ActivePlaces == {i \in 1..Len(api_keys) : api_keys[i] = current_key}

\* C18: the pool is not empty and the active key is exactly one of its
\* members in every state; a rotation does not fail: it makes the key after
\* the one in use active, the first key after the last one, and with a
\* single key that key again; the cycle then stands at the key after the
\* active one.
C18_OneActiveKey ==
  /\ Len(api_keys) >= 1
  /\ Cardinality(ActivePlaces) = 1
  /\ key_cycle \in 1..Len(api_keys)
  /\ api_keys[key_cycle] = KeyAfter(current_key)
  /\ last.rotated => current_key = KeyAfter(last.key)
  /\ (last.rotated /\ last.key = api_keys[Len(api_keys)]) =>
       current_key = api_keys[1]

C18_Witness ==
  /\ Len(api_keys) = 1
  /\ last.rotated
  /\ last.key = api_keys[1] /\ current_key = api_keys[1]
  /\ turns = 2

\* C19: the active key (and the place of the cycle) is changed only by an
\* attempt of call_gemini that fails with a quota or a permission marker in
\* its error; every other step leaves it as it is: an attempt that returns,
\* an empty response, another error, the probe, the merge, the checkpoint,
\* a skipped row.  Every attempt uses the key active before it, which is
\* the key all rotations since startup lead to: the first attempt for a row
\* uses the key the call for the row before left.
C19_KeyChangedOnlyByFailedAttempt ==
  [][ /\ (current_key' # current_key \/ key_cycle' # key_cycle
            \/ turns' # turns) =>
           /\ pc = "classify" /\ calls' = calls + 1
           /\ last'.cause \notin {"none", "ok"}
           /\ last'.quota \/ last'.perm
           /\ turns' = turns + 1
      /\ calls' = calls + 1 =>
           /\ last'.key = current_key
           /\ last'.key = api_keys[(turns % Len(api_keys)) + 1]
    ]_vars

C19_Witness ==
  /\ Len(probed) = 2 /\ merged # {}
  /\ calls = 1 /\ ~last.rotated
  /\ last.key # api_keys[1]
  /\ current_key = last.key

\* The key n places after `from` in the pool, counted cyclically.
KeyAfterN(from, n) ==
  LET at == CHOOSE i \in 1..Len(api_keys) : api_keys[i] = from IN
  api_keys[((at - 1 + n) % Len(api_keys)) + 1]

AllRetriesFailed ==
  pc = "returned" /\ gres.kind = "error" /\ gres.text = T("All retries failed")

\* C20: one call of call_gemini makes at most 3 rotations and at most 3
\* invocations, so it uses at most 3 keys whatever the size K of the pool;
\* the rotation after the third failed attempt is made although no
\* invocation follows; a call that ends with "All retries failed" after
\* three quota or permission failures leaves the active key 3 places after
\* the key it began with, modulo K.
C20_ThreeRotationsPerCall ==
  /\ rotations <= 3 /\ calls <= 3 /\ rotations <= calls
  /\ calls > 0 => current_key = KeyAfterN(last.first, rotations)
  /\ (AllRetriesFailed /\ rotations = 3) =>
       /\ calls = 3 /\ last.rotated
       /\ current_key = KeyAfter(last.key)
       /\ current_key = KeyAfterN(last.first, 3)

C20_Witness ==
  /\ AllRetriesFailed /\ rotations = 3
  /\ Len(api_keys) = 5
  /\ last.first = api_keys[4]
  /\ last.key = api_keys[1]
  /\ current_key = api_keys[2]
====
